---- MODULE Spec2Model ----
(***************************************************************************)
(* Model of update.py: the one-shot migration that loads the window, afk   *)
(* and web series of a source ActivityWatch store, wipes the destination   *)
(* buckets and sweeps the loaded history second by second, coalescing the  *)
(* derived (app, title) candidates into intervals that are inserted into   *)
(* the destination window and afk buckets.                                 *)
(*                                                                         *)
(* Time is counted in whole seconds.  Positions (data_pos) are 0-based as  *)
(* in the code; TLA+ sequences are 1-based, so events[data_pos] of the     *)
(* code is events[data_pos + 1] here.  None is the index 0 for a lookup    *)
(* result and the empty sequence for cur_event and for a candidate.        *)
(***************************************************************************)
EXTENDS Integers, Sequences, FiniteSets, TLC

\* ------------------------------------------------------------------------
\* Bounds of the model
\* ------------------------------------------------------------------------
MaxTs == 2
MaxDur == 2
MaxEvents == 2
MaxWebEvents == 1
MaxSeries == 3

Stamps == 0..MaxTs
Durs == 0..MaxDur

\* ------------------------------------------------------------------------
\* Host names and bucket ids
\* ------------------------------------------------------------------------
SrcHost == "src"
DstHost == "dst"

dst_window_bucket == "aw-watcher-window_dst"
dst_afk_bucket == "aw-watcher-afk_dst"
OtherDstBucket == "aw-watcher-input_dst"

\* A source bucket id is kept in the parts that load() takes it apart into:
\* "<prefix><name>_<host>".
SrcBucketIds ==
    { [prefix |-> "aw-watcher-", name |-> "window", host |-> SrcHost],
      [prefix |-> "aw-watcher-", name |-> "afk", host |-> SrcHost],
      [prefix |-> "aw-watcher-", name |-> "web-chrome", host |-> SrcHost] }

Roles == {"window", "afk", "web"}

\* ------------------------------------------------------------------------
\* Event data of the three roles
\* ------------------------------------------------------------------------
\* Texts (app names, titles, URLs) are sequences of tokens, so that the
\* regular expressions of process() can be applied to them: a token is a
\* punctuation character, a run of digits, a blank or a word without any of
\* these.
UrlMail == <<"https", ":", "/", "/", "mail.example.com", "/", "x">>
UrlNoHost == <<"chrome", ":", "/", "/", "newtab">>

DigitTokens == {"1", "12", "30"}
SpaceTokens == {" "}

WindowData ==
    { [app |-> <<"Code">>, title |-> <<"a">>],
      [app |-> <<"Google-chrome">>, title |-> <<"g">>] }

AfkData == { [status |-> "not-afk"], [status |-> "afk"] }

WebData ==
    { [audible |-> FALSE, incognito |-> FALSE, url |-> UrlMail,
       title |-> <<"t">>],
      [audible |-> TRUE, incognito |-> FALSE, url |-> UrlNoHost,
       title |-> <<"t">>],
      [audible |-> FALSE, incognito |-> TRUE, url |-> UrlMail,
       title |-> <<"t">>] }

EventsOf(D) == [timestamp : Stamps, duration : Durs, data : D]

\* What get_events may return for a bucket: the events newest first, as the
\* server lists them (load() sorts them).
IsDescending(s) ==
    \A i \in 1..(Len(s) - 1) : s[i].timestamp >= s[i + 1].timestamp

Fetched(D, n) ==
    { s \in UNION { [1..k -> EventsOf(D)] : k \in 0..n } : IsDescending(s) }

\* ------------------------------------------------------------------------
\* BucketData
\* ------------------------------------------------------------------------
\* sorted(events, key=lambda e: e.timestamp): a stable sort by timestamp.
InsertByTs(s, e) ==
    LET k == Cardinality({ i \in 1..Len(s) : s[i].timestamp <= e.timestamp })
    IN  SubSeq(s, 1, k) \o <<e>> \o SubSeq(s, k + 1, Len(s))

RECURSIVE SortedByTs(_)
SortedByTs(s) ==
    IF s = <<>>
    THEN <<>>
    ELSE InsertByTs(SortedByTs(SubSeq(s, 1, Len(s) - 1)), s[Len(s)])

IsSorted(s) ==
    \A i \in 1..(Len(s) - 1) : s[i].timestamp <= s[i + 1].timestamp

\* BucketData.__init__ followed by BucketData.load
BucketData(fetched) == [events |-> SortedByTs(fetched), data_pos |-> 0]

\* get_first_ts: <<>> stands for None
get_first_ts(events) ==
    IF events = <<>> THEN <<>> ELSE <<events[1].timestamp>>

get_total_duration(events) ==
    IF events = <<>>
    THEN 0
    ELSE events[Len(events)].timestamp + events[Len(events)].duration
         - events[1].timestamp

\* get_by_timestamp, lines 73-77: the cursor the scan starts from
StartPos(events, data_pos, timestamp) ==
    IF data_pos >= Len(events) \/ events[data_pos + 1].timestamp > timestamp
    THEN 0
    ELSE data_pos

\* get_by_timestamp, lines 79-85: the while loop; ev is always
\* events[data_pos], so the loop is described by the cursor alone
RECURSIVE ScanForward(_, _, _)
ScanForward(events, data_pos, timestamp) ==
    IF data_pos < Len(events) - 1
    THEN IF events[data_pos + 2].timestamp >= timestamp
         THEN data_pos
         ELSE ScanForward(events, data_pos + 1, timestamp)
    ELSE data_pos

\* get_by_timestamp, lines 87-89: ev is the 1-based index of the event
\* returned, 0 for None
Expired_late(e, timestamp, use_duration) ==
    use_duration /\ timestamp > e.timestamp + e.duration + 1

Expired(e, timestamp, use_duration) ==
    use_duration /\ timestamp > e.timestamp + e.duration

\* lines 87-89 with the cursor at p: the result and the cursor left behind
Returned(events, p, timestamp, use_duration) ==
    [data_pos |-> p,
     ev |-> IF Expired(events[p + 1], timestamp, use_duration)
            THEN 0
            ELSE p + 1]

\* get_by_timestamp with the cursor left one event ahead of the event
\* returned
get_by_timestamp_ahead(events, data_pos, timestamp, use_duration) ==
    IF events = <<>>
    THEN [data_pos |-> data_pos, ev |-> 0]
    ELSE [Returned(events,
                   ScanForward(events, StartPos(events, data_pos, timestamp),
                               timestamp),
                   timestamp, use_duration)
          EXCEPT !.data_pos = IF @ + 1 < Len(events) THEN @ + 1 ELSE @]

\* get_by_timestamp: the result and the cursor it leaves behind
get_by_timestamp(events, data_pos, timestamp, use_duration) ==
    IF events = <<>>
    THEN [data_pos |-> data_pos, ev |-> 0]
    ELSE Returned(events,
                  ScanForward(events, StartPos(events, data_pos, timestamp),
                              timestamp),
                  timestamp, use_duration)

\* ------------------------------------------------------------------------
\* Candidate derivation (process, lines 199-237)
\* ------------------------------------------------------------------------
StartsWith(s, p) == Len(s) >= Len(p) /\ SubSeq(s, 1, Len(p)) = p

\* length of the longest run of tokens of s from position i that are in
\* (inside = TRUE) or not in (inside = FALSE) the set T
RECURSIVE RunOf(_, _, _, _)
RunOf(s, i, T, inside) ==
    IF i > Len(s) \/ (s[i] \in T) # inside
    THEN 0
    ELSE 1 + RunOf(s, i + 1, T, inside)

\* re.search(r"^https?://([^/]+)", url): <<>> when there is no match,
\* <<group 1>> otherwise
HostOfLen(url, n) == IF n = 0 THEN <<>> ELSE <<SubSeq(url, 5, 4 + n)>>

UrlHost(url) ==
    IF Len(url) >= 4 /\ url[1] \in {"http", "https"}
       /\ SubSeq(url, 2, 4) = <<":", "/", "/">>
    THEN HostOfLen(url, RunOf(url, 5, {"/"}, FALSE))
    ELSE <<>>

\* lines 218-220 with the whole URL taken for the app
HostOr_url(app, m) == IF m # <<>> THEN UrlMail ELSE app

\* lines 218-220: m is the match of the URL, <<>> or <<host>>
HostOr(app, m) == IF m # <<>> THEN m[1] ELSE app

\* lines 211-220: the browser normalization; web is <<>> or <<web event>>
ChromeNormalize(app, title, web) ==
    IF app = <<"Google-chrome">> /\ web # <<>>
    THEN IF web[1].data.incognito
         THEN [app |-> app, title |-> <<"PRIVATE">>]
         ELSE [app |-> HostOr(app, UrlHost(web[1].data.url)),
               title |-> web[1].data.title]
    ELSE [app |-> app, title |-> title]

DigitsAt(s, i) == RunOf(s, i, DigitTokens, TRUE)
BlanksAt(s, i) == RunOf(s, i, SpaceTokens, TRUE)
TokenAt(s, i, t) == i >= 1 /\ i <= Len(s) /\ s[i] = t

\* a match of n tokens that d digits and b blanks complete, 0 for no match
Matched(n, d, b) == IF d > 0 /\ b > 0 THEN n ELSE 0

\* \d+:\d+\s+ at position i, after d1 digits and then d2 digits (line 223)
ClockTail(s, i, d1, d2) ==
    IF d1 > 0 /\ TokenAt(s, i + d1, ":")
    THEN Matched(d1 + 1 + d2 + BlanksAt(s, i + d1 + 1 + d2), d2,
                 BlanksAt(s, i + d1 + 1 + d2))
    ELSE 0

ClockLen(s, i, d1) == ClockTail(s, i, d1, DigitsAt(s, i + d1 + 1))

\* \(\d+\)\s+ at position i, with d digits after the bracket (line 232)
CountLen(s, i, d) ==
    IF TokenAt(s, i, "(") /\ TokenAt(s, i + d + 1, ")")
    THEN Matched(d + 2 + BlanksAt(s, i + d + 2), d, BlanksAt(s, i + d + 2))
    ELSE 0

\* The length of the match of a title pattern at position i, 0 for none:
\*   "clock"  \d+:\d+\s+    (line 223, anchored at the start by its caller)
\*   "bullet" the glyph of line 226 (the token "GLYPH") and a blank
\*   "count"  \(\d+\)\s+    (line 232)
\*   "star"   \*\s+         (line 235)
MatchLen(rule, s, i) ==
    CASE rule = "clock" -> ClockLen(s, i, DigitsAt(s, i))
      [] rule = "bullet" ->
           IF TokenAt(s, i, "GLYPH") /\ TokenAt(s, i + 1, " ") THEN 2 ELSE 0
      [] rule = "count" -> CountLen(s, i, DigitsAt(s, i + 1))
      [] rule = "star" ->
           IF TokenAt(s, i, "*")
           THEN Matched(1 + BlanksAt(s, i + 1), 1, BlanksAt(s, i + 1))
           ELSE 0

\* re.sub(pattern, '', title) from position i on, m being the length of the
\* match at i: every match is removed, left to right
RECURSIVE SubFrom(_, _, _, _)
SubFrom(rule, s, i, m) ==
    IF i > Len(s)
    THEN <<>>
    ELSE IF m > 0
         THEN SubFrom(rule, s, i + m, MatchLen(rule, s, i + m))
         ELSE <<s[i]>> \o SubFrom(rule, s, i + 1, MatchLen(rule, s, i + 1))

SubAll(rule, s) == SubFrom(rule, s, 1, MatchLen(rule, s, 1))

\* re.sub with a pattern anchored by ^
SubStart(rule, s) ==
    SubSeq(s, MatchLen(rule, s, 1) + 1, Len(s))

\* lines 222-223
CleanKanban(c) ==
    IF c.app = <<"kanbanflow.com">>
    THEN [c EXCEPT !.title = SubStart("clock", c.title)]
    ELSE c

\* lines 225-226
CleanCode(c) ==
    IF c.app = <<"Code">>
    THEN [c EXCEPT !.title = SubAll("bullet", c.title)]
    ELSE c

\* lines 228-229
AliasApp(c) ==
    IF c.app \in {<<"localhost:5600">>, <<"localhost:5666">>}
    THEN [c EXCEPT !.app = <<"ActivityWatch">>]
    ELSE c

\* lines 231-232
CleanChat(c) ==
    IF c.app \in {<<"www.messenger.com">>, <<"www.facebook.com">>}
    THEN [c EXCEPT !.title = SubAll("count", c.title)]
    ELSE c

\* lines 234-235
CleanSlack(c) ==
    IF c.app = <<"app.slack.com">>
    THEN [c EXCEPT !.title = SubAll("star", c.title)]
    ELSE c

\* lines 222-235, in the order of the code
TitleCleanup(c) ==
    CleanSlack(CleanChat(AliasApp(CleanCode(CleanKanban(c)))))

\* lines 199-201 without the override of line 200
IsAfk_by_status(afk, web) == afk # <<>> /\ afk[1].data.status = "afk"

\* lines 199-201
IsAfk(afk, web) ==
    IF web # <<>> /\ web[1].data.audible
    THEN FALSE
    ELSE afk # <<>> /\ afk[1].data.status = "afk"

\* lines 203-237: the candidate handed to update_event, <<>> for
\* (None, None); win, afk and web are <<>> or <<the event looked up>>
Candidate(win, afk, web) ==
    IF IsAfk(afk, web) \/ win = <<>>
    THEN <<>>
    ELSE <<TitleCleanup(ChromeNormalize(win[1].data.app, win[1].data.title,
                                        web))>>

\* ------------------------------------------------------------------------
\* update_event (lines 142-173)
\* ------------------------------------------------------------------------
\* line 146-150
SameActivity(cur, cand) ==
    /\ cand # <<>>
    /\ cur.data.app = cand[1].app
    /\ cur.data.title = cand[1].title

\* line 151
Extended(cur, ts) == [cur EXCEPT !.duration = ts - cur.timestamp]

\* line 154 without its test of the duration
Emitted_any(cur) == <<cur>>

\* line 154: the closed interval is emitted only with a positive duration
Emitted(cur) == IF cur.duration > 0 THEN <<cur>> ELSE <<>>

\* lines 165-173
NewEvent(cand, ts) ==
    IF cand # <<>>
    THEN <<[timestamp |-> ts, duration |-> 0, data |-> cand[1]]>>
    ELSE <<>>

\* update_event that keeps the start of the interval it closes for the one
\* it opens
update_event_keeps_start(cur_event, cand, ts) ==
    IF cur_event # <<>> /\ SameActivity(cur_event[1], cand)
    THEN [cur_event |-> <<Extended(cur_event[1], ts)>>, closed |-> <<>>]
    ELSE [cur_event |->
            NewEvent(cand, IF cur_event # <<>> THEN cur_event[1].timestamp
                           ELSE ts),
          closed |-> IF cur_event # <<>> THEN Emitted(cur_event[1]) ELSE <<>>]

\* update_event: the new cur_event and the interval closed for emission
update_event(cur_event, cand, ts) ==
    IF cur_event # <<>> /\ SameActivity(cur_event[1], cand)
    THEN [cur_event |-> <<Extended(cur_event[1], ts)>>, closed |-> <<>>]
    ELSE [cur_event |-> NewEvent(cand, ts),
          closed |-> IF cur_event # <<>> THEN Emitted(cur_event[1]) ELSE <<>>]

\* an afk_event that does not take over the duration of cur_event
AfkEvent_instant(e) ==
    [timestamp |-> e.timestamp, duration |-> 0,
     data |-> [app |-> e.data.app, title |-> e.data.title,
               status |-> "not-afk"]]

\* lines 155-156: afk_event = deepcopy(cur_event) with data["status"] set
AfkEvent(e) ==
    [timestamp |-> e.timestamp, duration |-> e.duration,
     data |-> [app |-> e.data.app, title |-> e.data.title,
               status |-> "not-afk"]]

\* ------------------------------------------------------------------------
\* State
\* ------------------------------------------------------------------------
VARIABLES
    src,            \* source store: bucket id -> events as get_events lists them
    dst,            \* destination store: bucket id -> [exists, type, events]
    calls,          \* destination mutations issued by the current run, in order
    run,            \* number of the current invocation of the process
    pc,             \* position of the run in process()
    err,            \* the exception that ended the run, "" for none
    data,           \* AllData.data: role -> BucketData
    cur_event,      \* <<>> for None, <<event>> otherwise
    first_ts,       \* start of the sweep
    seconds,        \* int(total_duration.total_seconds())
    offset,         \* loop variable of the sweep
    cands,          \* history: the candidate derived at each swept second
    start_dst,      \* history: the destination before the first run
    past,           \* history: how the earlier runs ended
    lk              \* state of the lookup harness (SpecLookup)

vars == <<src, dst, calls, run, pc, err, data, cur_event, first_ts, seconds,
          offset, cands, start_dst, past, lk>>

DstIds == {dst_window_bucket, dst_afk_bucket, OtherDstBucket}

\* the order in which get_buckets() lists the destination buckets
DstOrder == <<dst_window_bucket, dst_afk_bucket, OtherDstBucket>>

BucketType(id) ==
    CASE id = dst_window_bucket -> "currentwindow"
      [] id = dst_afk_bucket -> "afkstatus"
      [] OTHER -> "input"

\* an event left in the destination by earlier use
StaleEvent ==
    [timestamp |-> 0, duration |-> 1,
     data |-> [app |-> <<"old">>, title |-> <<"old">>]]

NoBucket == [exists |-> FALSE, type |-> "", events |-> <<>>]

\* buckets of the source that load() has to skip
ForeignBucket ==
    [prefix |-> "aw-watcher-", name |-> "window", host |-> "elsewhere"]
PlainBucket == [prefix |-> "aw-stopwatch", name |-> "", host |-> SrcHost]

\* ------------------------------------------------------------------------
\* AllData.load (lines 120-134)
\* ------------------------------------------------------------------------
\* lines 123-127: the buckets that are loaded
Selected(buckets) ==
    { b \in buckets : b.prefix = "aw-watcher-" /\ b.host = SrcHost }

\* lines 128-130
Bname(b) == IF b.name = "web-chrome" THEN "web" ELSE b.name

\* lines 121-132: self.data after the loop
Loaded(store) ==
    [ r \in { Bname(b) : b \in Selected(DOMAIN store) } |->
        BucketData(store[CHOOSE b \in Selected(DOMAIN store) : Bname(b) = r]) ]

\* the assertion of line 134 without the web role
RolesPresent_no_web(d) == \A r \in {"window", "afk"} : r \in DOMAIN d

\* line 134
RolesPresent(d) == \A r \in Roles : r \in DOMAIN d

NoData == [r \in {} |-> 0]

Idle == /\ data = NoData
        /\ cur_event = <<>>
        /\ first_ts = 0
        /\ seconds = 0
        /\ offset = 0
        /\ cands = <<>>

NoLookup ==
    [events |-> <<>>, data_pos |-> 0, before |-> 0, timestamp |-> 0,
     use_duration |-> FALSE, ev |-> 0, asked |-> FALSE, monotonic |-> TRUE]

\* ------------------------------------------------------------------------
\* The stores the process is started on
\* ------------------------------------------------------------------------
\* A series of one event that starts at t and lasts one second longer than
\* any other event of the model can.
LongDur == MaxTs + MaxDur + 1

SteadyAt(t, d) == <<[timestamp |-> t, duration |-> LongDur, data |-> d]>>

Steady(D) == { SteadyAt(0, d) : d \in D }

WebMail == CHOOSE d \in WebData : ~d.audible /\ ~d.incognito
WebAudible == CHOOSE d \in WebData : d.audible

\* Section 8 of the specification, "End-to-end scenario"
EndToEnd ==
    [window |-> <<[timestamp |-> 0, duration |-> 10,
                   data |-> [app |-> <<"Code">>, title |-> <<"a">>]]>>,
     afk |-> <<[timestamp |-> 0, duration |-> 10,
                data |-> [status |-> "not-afk"]]>>,
     web |-> <<>>]

\* The afk and web series that accompany a varying window series: the user
\* is active over the whole time with each kind of web event, or away with
\* audible media, or both series start a second later.
Backdrops ==
    [afk : {SteadyAt(0, [status |-> "not-afk"])}, web : Steady(WebData)]
    \cup { [afk |-> SteadyAt(0, [status |-> "afk"]),
            web |-> SteadyAt(0, WebAudible)],
           [afk |-> SteadyAt(1, [status |-> "not-afk"]),
            web |-> SteadyAt(1, WebMail)] }

\* One series varies over every fetched list within the bounds while the
\* other two are steady.
VariedInputs ==
    { [window |-> w, afk |-> bd.afk, web |-> bd.web] :
        w \in Fetched(WindowData, MaxEvents), bd \in Backdrops }
    \cup [window : Steady(WindowData), afk : Fetched(AfkData, MaxEvents),
          web : {SteadyAt(0, WebMail)}]
    \cup [window : Steady(WindowData), afk : Steady(AfkData),
          web : Fetched(WebData, MaxWebEvents)]

\* Inputs for which the buckets of the two stores vary as well.
PlainInputs ==
    [window : Steady(WindowData) \cup {<<>>}, afk : Steady(AfkData),
     web : Steady(WebData) \cup {<<>>}]
    \cup {EndToEnd}

SrcStore(present, inp) ==
    [ id \in present \cup {ForeignBucket, PlainBucket} |->
        CASE id.host # SrcHost \/ id.prefix # "aw-watcher-" -> <<>>
          [] id.name = "window" -> inp.window
          [] id.name = "afk" -> inp.afk
          [] OTHER -> inp.web ]

DstStore(held) ==
    [ id \in DstIds |->
        IF id \in held
        THEN [exists |-> TRUE, type |-> BucketType(id),
              events |-> <<StaleEvent>>]
        ELSE NoBucket ]

Init ==
    /\ \/ \E inp \in VariedInputs :
            /\ src = SrcStore(SrcBucketIds, inp)
            /\ dst = DstStore(DstIds)
       \/ \E inp \in PlainInputs, present \in SUBSET SrcBucketIds,
             held \in SUBSET DstIds :
            /\ src = SrcStore(present, inp)
            /\ dst = DstStore(held)
    /\ start_dst = dst
    /\ past = <<>>
    /\ calls = <<>>
    /\ run = 1
    /\ pc = "start"
    /\ err = ""
    /\ Idle
    /\ lk = NoLookup

\* load() returns normally or fails its assertion
Load ==
    /\ pc = "start"
    /\ data' = Loaded(src)
    /\ IF RolesPresent(Loaded(src))
       THEN pc' = "loaded" /\ err' = ""
       ELSE pc' = "failed" /\ err' = "AssertionError"
    /\ UNCHANGED <<src, dst, calls, run, cur_event, first_ts, seconds, offset,
                   cands, start_dst, past, lk>>

\* get_buckets or get_events of the source raises
LoadFails ==
    /\ pc = "start"
    /\ pc' = "failed"
    /\ err' = "SourceUnavailable"
    /\ UNCHANGED <<src, dst, calls, run, data, cur_event, first_ts, seconds,
                   offset, cands, start_dst, past, lk>>

\* ------------------------------------------------------------------------
\* AllData.prepare_target (lines 111-118)
\* ------------------------------------------------------------------------
\* get_buckets() that leaves out the last bucket of the destination
Listed_short(store) ==
    SelectSeq(SubSeq(DstOrder, 1, Len(DstOrder) - 1),
              LAMBDA id : store[id].exists)

\* line 112: the bucket ids get_buckets() returns, in its order
Listed(store) == SelectSeq(DstOrder, LAMBDA id : store[id].exists)

\* create_bucket on a bucket that delete_bucket has left in place
Recreated_kept(bucket) ==
    [exists |-> TRUE, type |-> bucket.type, events |-> bucket.events]

\* lines 114-118 for one bucket
Recreated(bucket) == [exists |-> TRUE, type |-> bucket.type, events |-> <<>>]

\* the destination after the loop has handled the first n listed buckets,
\* and has deleted but not yet recreated the next one when half is TRUE
Prepared(store, n, half) ==
    LET ids == Listed(store)
    IN  [ id \in DstIds |->
            IF \E i \in 1..n : ids[i] = id
            THEN Recreated(store[id])
            ELSE IF half /\ n < Len(ids) /\ ids[n + 1] = id
                 THEN NoBucket
                 ELSE store[id] ]

\* the calls the loop has completed by then
RECURSIVE PrepareCalls(_, _, _)
PrepareCalls(ids, n, half) ==
    IF n = 0
    THEN IF half /\ ids # <<>>
         THEN <<[op |-> "delete_bucket", bucket |-> ids[1]]>>
         ELSE <<>>
    ELSE <<[op |-> "delete_bucket", bucket |-> ids[1]],
           [op |-> "create_bucket", bucket |-> ids[1]]>>
         \o PrepareCalls(Tail(ids), n - 1, half)

PrepareTarget ==
    /\ pc = "loaded"
    /\ dst' = Prepared(dst, Len(Listed(dst)), FALSE)
    /\ calls' = calls \o PrepareCalls(Listed(dst), Len(Listed(dst)), FALSE)
    /\ pc' = "prepared"
    /\ UNCHANGED <<src, run, err, data, cur_event, first_ts, seconds, offset,
                   cands, start_dst, past, lk>>

\* delete_bucket (half = FALSE) or create_bucket (half = TRUE) raises for
\* the bucket after the first n
PrepareFails ==
    /\ pc = "loaded"
    /\ \E n \in 0..(Len(Listed(dst)) - 1), half \in BOOLEAN :
         /\ dst' = Prepared(dst, n, half)
         /\ calls' = calls \o PrepareCalls(Listed(dst), n, half)
    /\ pc' = "failed"
    /\ err' = "DestinationWriteFailed"
    /\ UNCHANGED <<src, run, data, cur_event, first_ts, seconds, offset,
                   cands, start_dst, past, lk>>

\* ------------------------------------------------------------------------
\* AllData.process: the sweep (lines 175-237)
\* ------------------------------------------------------------------------
Min(S) == CHOOSE x \in S : \A y \in S : x <= y
Max(S) == CHOOSE x \in S : \A y \in S : x >= y

\* lines 175-177: min() raises TypeError when a first timestamp is None
FirstTsDefined(d) == \A r \in DOMAIN d : get_first_ts(d[r].events) # <<>>

FirstTs(d) == Min({ get_first_ts(d[r].events)[1] : r \in DOMAIN d })

\* lines 178-181 and 185
Seconds(d) == Max({ get_total_duration(d[r].events) : r \in DOMAIN d })

SweepStart ==
    /\ pc = "prepared"
    /\ IF FirstTsDefined(data)
       THEN /\ first_ts' = FirstTs(data)
            /\ seconds' = Seconds(data)
            /\ pc' = IF Seconds(data) = 0 THEN "done" ELSE "sweep"
            /\ err' = ""
       ELSE /\ pc' = "failed"
            /\ err' = "TypeError"
            /\ UNCHANGED <<first_ts, seconds>>
    /\ UNCHANGED <<src, dst, calls, run, data, cur_event, offset, cands,
                   start_dst, past, lk>>

\* lines 193-197: the three lookups at one timestamp
Lookup(d, role, timestamp, use_duration) ==
    get_by_timestamp(d[role].events, d[role].data_pos, timestamp,
                     use_duration)

Found(d, role, r) == IF r.ev = 0 THEN <<>> ELSE <<d[role].events[r.ev]>>

\* lines 157-162: insert_event raises for a bucket the destination does not
\* hold
CanInsert(store, id) == store[id].exists

Inserted(store, id, e) ==
    [store EXCEPT ![id].events = Append(@, e)]

\* the iteration ends and the loop goes on, or ends, with cur_event = cur
EndIteration(cur) ==
    /\ cur_event' = cur
    /\ offset' = offset + 1
    /\ pc' = IF offset + 1 = seconds THEN "done" ELSE "sweep"
    /\ err' = ""

\* insert_event raises
InsertRaises ==
    /\ pc' = "failed"
    /\ err' = "DestinationWriteFailed"
    /\ UNCHANGED <<cur_event, offset>>

InsertCall(id) == [op |-> "insert_event", bucket |-> id]

\* lines 155-163: the closed interval e is inserted into the two buckets;
\* fault is the number of the insert_event call that the destination store
\* fails (0: none)
Emit(fault, e, cur) ==
    IF fault = 1 \/ ~CanInsert(dst, dst_window_bucket)
    THEN /\ InsertRaises
         /\ UNCHANGED <<dst, calls>>
    ELSE IF fault = 2 \/ ~CanInsert(dst, dst_afk_bucket)
         THEN /\ InsertRaises
              /\ dst' = Inserted(dst, dst_window_bucket, e)
              /\ calls' = Append(calls, InsertCall(dst_window_bucket))
         ELSE /\ EndIteration(cur)
              /\ dst' = Inserted(Inserted(dst, dst_window_bucket, e),
                                 dst_afk_bucket, AfkEvent(e))
              /\ calls' = calls \o <<InsertCall(dst_window_bucket),
                                     InsertCall(dst_afk_bucket)>>

\* update_event followed, in the last iteration, by the insert of the
\* interval that is still open
Updated_flush(fault, upd) ==
    IF upd.closed = <<>>
    THEN IF offset + 1 = seconds /\ upd.cur_event # <<>>
         THEN Emit(fault, upd.cur_event[1], upd.cur_event)
         ELSE /\ fault = 0
              /\ EndIteration(upd.cur_event)
              /\ UNCHANGED <<dst, calls>>
    ELSE Emit(fault, upd.closed[1], upd.cur_event)

\* the call of update_event has returned upd, or has raised in an insert
Updated(fault, upd) ==
    IF upd.closed = <<>>
    THEN /\ fault = 0
         /\ EndIteration(upd.cur_event)
         /\ UNCHANGED <<dst, calls>>
    ELSE Emit(fault, upd.closed[1], upd.cur_event)

\* lines 199-237: the candidate of the second is handed to update_event
Derived(fault, timestamp, cand) ==
    /\ cands' = Append(cands, cand)
    /\ Updated(fault, update_event(cur_event, cand, timestamp))

\* lines 193-197: the lookups have returned rw, rb and ra
Looked(fault, timestamp, rw, rb, ra) ==
    /\ data' = [data EXCEPT !["window"].data_pos = rw.data_pos,
                            !["web"].data_pos = rb.data_pos,
                            !["afk"].data_pos = ra.data_pos]
    /\ Derived(fault, timestamp,
               Candidate(Found(data, "window", rw), Found(data, "afk", ra),
                         Found(data, "web", rb)))

\* One iteration of the loop (lines 185-237).
SweepStep(fault) ==
    /\ pc = "sweep"
    /\ offset < seconds
    /\ Looked(fault, first_ts + offset,
              Lookup(data, "window", first_ts + offset, TRUE),
              Lookup(data, "web", first_ts + offset, FALSE),
              Lookup(data, "afk", first_ts + offset, TRUE))
    /\ UNCHANGED <<src, run, first_ts, seconds, start_dst, past, lk>>

\* The process is invoked a second time after a run has ended: AllData is
\* built anew, the two stores are as the first run left them.
Rerun ==
    /\ pc \in {"done", "failed"}
    /\ run = 1
    /\ run' = 2
    /\ past' = Append(past, [pc |-> pc, err |-> err, dst |-> dst])
    /\ pc' = "start"
    /\ err' = ""
    /\ calls' = <<>>
    /\ data' = NoData
    /\ cur_event' = <<>>
    /\ first_ts' = 0
    /\ seconds' = 0
    /\ offset' = 0
    /\ cands' = <<>>
    /\ UNCHANGED <<src, dst, start_dst, lk>>

Next ==
    \/ Load
    \/ LoadFails
    \/ PrepareTarget
    \/ PrepareFails
    \/ SweepStart
    \/ \E fault \in 0..2 : SweepStep(fault)

Spec == Init /\ [][Next]_vars

\* The process invoked twice in succession on stores that fail, if at all,
\* in insert_event.
NextRerun ==
    \/ Load
    \/ PrepareTarget
    \/ SweepStart
    \/ \E fault \in 0..2 : SweepStep(fault)
    \/ Rerun

SpecRerun == Init /\ [][NextRerun]_vars

\* ------------------------------------------------------------------------
\* get_by_timestamp on its own: one BucketData queried again and again
\* ------------------------------------------------------------------------
SortedSeries ==
    { s \in UNION { [1..k -> [timestamp : Stamps, duration : Durs]] :
                      k \in 0..MaxSeries } : IsSorted(s) }

QueryStamps == 0..(LongDur + 1)

InitLookup ==
    /\ \E s \in SortedSeries : lk = [NoLookup EXCEPT !.events = s]
    /\ src = SrcStore({}, EndToEnd)
    /\ dst = DstStore({})
    /\ start_dst = dst
    /\ past = <<>>
    /\ calls = <<>>
    /\ run = 1
    /\ pc = "lookup"
    /\ err = ""
    /\ Idle

\* one call of get_by_timestamp(timestamp, use_duration)
Query(timestamp, use_duration) ==
    /\ pc = "lookup"
    /\ LET r == get_by_timestamp(lk.events, lk.data_pos, timestamp,
                                 use_duration)
       IN  lk' = [lk EXCEPT !.data_pos = r.data_pos,
                            !.before = lk.data_pos,
                            !.timestamp = timestamp,
                            !.use_duration = use_duration,
                            !.ev = r.ev,
                            !.asked = TRUE,
                            !.monotonic = lk.monotonic
                                /\ (lk.asked => timestamp >= lk.timestamp)]
    /\ UNCHANGED <<src, dst, calls, run, pc, err, data, cur_event, first_ts,
                   seconds, offset, cands, start_dst, past>>

NextLookup == \E t \in QueryStamps, u \in BOOLEAN : Query(t, u)

SpecLookup == InitLookup /\ [][NextLookup]_vars

\* ------------------------------------------------------------------------
\* Properties
\* ------------------------------------------------------------------------
WinEvents == dst[dst_window_bucket].events
AfkEvents == dst[dst_afk_bucket].events

\* the sweep is between two iterations, or has ended normally
Swept == pc \in {"sweep", "done"}

\* the timestamp of the i-th swept second
SecondAt(i) == first_ts + i - 1

\* cands[i..j] is a maximal run of one candidate that is not idle, and the
\* second after it has been swept
ClosedRun(i, j) ==
    /\ 1 <= i /\ i <= j /\ j < Len(cands)
    /\ cands[i] # <<>>
    /\ \A k \in i..j : cands[k] = cands[i]
    /\ i = 1 \/ cands[i - 1] # cands[i]
    /\ cands[j + 1] # cands[i]

\* the inserted window events whose timestamp is one of the seconds i..j
StartedIn(i, j) ==
    { k \in 1..Len(WinEvents) :
        WinEvents[k].timestamp \in SecondAt(i)..SecondAt(j) }

\* C1: a candidate derived at exactly N consecutive swept seconds yields
\* exactly one inserted window interval, which starts at the first second of
\* the run and has duration N.
C1_OneIntervalOfDurationN ==
    Swept =>
      \A i \in 1..Len(cands), j \in 1..Len(cands) :
        ClosedRun(i, j) =>
          /\ Cardinality(StartedIn(i, j)) = 1
          /\ \A k \in StartedIn(i, j) :
               /\ WinEvents[k].timestamp = SecondAt(i)
               /\ WinEvents[k].duration = j - i + 1

NoOverlap(events) ==
    \A i \in 1..Len(events), j \in 1..Len(events) :
      i < j => events[i].timestamp + events[i].duration <= events[j].timestamp

\* C2: the intervals inserted into the destination window bucket never
\* overlap, and neither do those inserted into the destination afk bucket:
\* an interval inserted earlier ends no later than one inserted later starts.
C2_NoOverlap == NoOverlap(WinEvents) /\ NoOverlap(AfkEvents)

C2_Witness ==
    /\ Swept
    /\ Len(WinEvents) >= 2
    /\ Len(AfkEvents) >= 2
    /\ WinEvents[1].data # WinEvents[2].data

\* C3: when a candidate X held for k >= 2 seconds is followed by another
\* candidate Y held for m >= 2 seconds and then by another change, the
\* inserted X interval ends exactly where the inserted Y interval begins.
C3_GapFreeAcrossChange ==
    Swept =>
      \A i \in 1..Len(cands), j \in 1..Len(cands), l \in 1..Len(cands) :
        (/\ ClosedRun(i, j) /\ ClosedRun(j + 1, l)
         /\ j - i + 1 >= 2 /\ l - j >= 2)
        => \E x \in 1..Len(WinEvents), y \in 1..Len(WinEvents) :
             /\ WinEvents[x].timestamp = SecondAt(i)
             /\ WinEvents[y].timestamp = SecondAt(j + 1)
             /\ WinEvents[x].timestamp + WinEvents[x].duration
                  = WinEvents[y].timestamp

\* a window event covers the second s
Covered(events, s) ==
    \E k \in 1..Len(events) :
      /\ events[k].timestamp <= s
      /\ s <= events[k].timestamp + events[k].duration

\* the afk status at the second s is "afk" and no audible web event
\* overrides it
AwayAt(s) ==
    IsAfk(Found(data, "afk", get_by_timestamp(data["afk"].events, 0, s, TRUE)),
          Found(data, "web", get_by_timestamp(data["web"].events, 0, s, FALSE)))

IdleSecond(s) == ~Covered(data["window"].events, s) \/ AwayAt(s)

Reaches(e, s) == e.timestamp <= s /\ s <= e.timestamp + e.duration

\* C4: no interval inserted into the window or the afk destination bucket
\* starts in or extends into a swept second at which no window event covers
\* the second or the user is away without audible media.
C4_IdleSuppression ==
    \A i \in 1..Len(cands) :
      IdleSecond(SecondAt(i)) =>
        /\ \A k \in 1..Len(WinEvents) : ~Reaches(WinEvents[k], SecondAt(i))
        /\ \A k \in 1..Len(AfkEvents) : ~Reaches(AfkEvents[k], SecondAt(i))

\* the run has ended, and not because one of the two stores failed
EndedByItself ==
    pc = "done" \/ (pc = "failed" /\ err \in {"TypeError", "AssertionError"})

\* C5: on the end-to-end scenario (one window event Code/a and one not-afk
\* event, both at 0 for 10 s, web loaded but empty) the run completes and
\* inserts exactly one window event and one status event at 0 for 10 s.
C5_EndToEndScenario ==
    (/\ src = SrcStore(SrcBucketIds, EndToEnd)
     /\ start_dst[dst_window_bucket].exists
     /\ start_dst[dst_afk_bucket].exists
     /\ EndedByItself)
    => /\ pc = "done"
       /\ WinEvents = <<[timestamp |-> 0, duration |-> 10,
                         data |-> [app |-> <<"Code">>, title |-> <<"a">>]]>>
       /\ Len(AfkEvents) = 1
       /\ AfkEvents[1].timestamp = 0
       /\ AfkEvents[1].duration = 10
       /\ AfkEvents[1].data.status = "not-afk"

\* the result of the last query when it is put to a BucketData whose cursor
\* is at 0
FromScratch ==
    get_by_timestamp(lk.events, 0, lk.timestamp, lk.use_duration).ev

\* C6: as long as the timestamps queried have not decreased, every call of
\* get_by_timestamp, with either use_duration, returns what the same call
\* returns on a fresh copy of the series with its cursor at 0.
C6_MonotonicCursor ==
    (lk.asked /\ lk.monotonic) => lk.ev = FromScratch

C6_Witness ==
    /\ lk.asked /\ lk.monotonic
    /\ lk.before > 0
    /\ lk.data_pos > lk.before
    /\ lk.ev # 0

AtOrBefore(events, ts) ==
    { k \in 1..Len(events) : events[k].timestamp <= ts }

\* C7: on a series that is not empty, get_by_timestamp(ts, False) returns an
\* event with the greatest timestamp that is <= ts, and None when every
\* event starts after ts.
C7_MostRecentAtOrBefore ==
    (lk.asked /\ ~lk.use_duration /\ lk.events # <<>>) =>
      IF AtOrBefore(lk.events, lk.timestamp) = {}
      THEN lk.ev = 0
      ELSE /\ lk.ev # 0
           /\ lk.events[lk.ev].timestamp =
                Max({ lk.events[k].timestamp :
                        k \in AtOrBefore(lk.events, lk.timestamp) })

\* ts lies after the end of an event of the series and before the start of
\* the next one
InGap(events, ts) ==
    \E k \in 1..(Len(events) - 1) :
      /\ events[k].timestamp + events[k].duration < ts
      /\ ts < events[k + 1].timestamp

\* C8: get_by_timestamp(ts, True) returns None whenever ts lies strictly
\* between the end of an event and the start of the next event of the
\* series, wherever earlier queries have left the cursor.
C8_GapSemantics ==
    (lk.asked /\ lk.use_duration /\ InGap(lk.events, lk.timestamp))
    => lk.ev = 0

C8_Witness ==
    /\ lk.asked /\ lk.use_duration
    /\ InGap(lk.events, lk.timestamp)
    /\ lk.before > lk.data_pos
    /\ lk.data_pos > 0

\* a role that load() requires has no bucket of the source host
RoleMissing ==
    \E r \in Roles : r \notin { Bname(b) : b \in Selected(DOMAIN src) }

\* C9: when one of the roles window, afk and web is missing on the source,
\* or a fetch from the source fails, the run fails with no delete_bucket,
\* create_bucket or insert_event issued and the destination as it was; the
\* first destination call is issued only when all three roles are loaded.
C9_NoHarmWithoutRoles ==
    /\ (RoleMissing \/ err = "SourceUnavailable") =>
         /\ calls = <<>>
         /\ dst = start_dst
         /\ pc \in {"start", "failed"}
    /\ calls # <<>> => \A r \in Roles : r \in DOMAIN data

C9_Witness ==
    /\ RoleMissing
    /\ pc = "failed"
    /\ err = "AssertionError"
    /\ \E id \in DstIds : dst[id].exists /\ dst[id].events # <<>>

\* the intervals a sweep over the loaded series d closes with a positive
\* duration, from the iteration off on
RECURSIVE SweepInserts(_, _, _, _, _)
SweepInserts(d, cur, first, n, off) ==
    IF off >= n
    THEN <<>>
    ELSE LET rw == Lookup(d, "window", first + off, TRUE)
             rb == Lookup(d, "web", first + off, FALSE)
             ra == Lookup(d, "afk", first + off, TRUE)
             upd == update_event(cur,
                                 Candidate(Found(d, "window", rw),
                                           Found(d, "afk", ra),
                                           Found(d, "web", rb)),
                                 first + off)
         IN  upd.closed
             \o SweepInserts([d EXCEPT !["window"].data_pos = rw.data_pos,
                                       !["web"].data_pos = rb.data_pos,
                                       !["afk"].data_pos = ra.data_pos],
                             upd.cur_event, first, n, off + 1)

RECURSIVE MapAfkEvent(_)
MapAfkEvent(s) ==
    IF s = <<>> THEN <<>> ELSE <<AfkEvent(Head(s))>> \o MapAfkEvent(Tail(s))

\* the destination a single complete run leaves when it is started on store
SingleRun(store) ==
    LET d == Loaded(src)
        closed == SweepInserts(d, <<>>, FirstTs(d), Seconds(d), 0)
    IN  [ id \in DstIds |->
            IF ~store[id].exists
            THEN NoBucket
            ELSE [exists |-> TRUE, type |-> store[id].type,
                  events |-> IF id = dst_window_bucket THEN closed
                             ELSE IF id = dst_afk_bucket
                                  THEN MapAfkEvent(closed)
                                  ELSE <<>>] ]

PrepareDone ==
    \/ pc \in {"prepared", "sweep", "done"}
    \/ pc = "failed" /\ err = "TypeError"
    \/ pc = "failed" /\ offset < seconds

CallsOf(op) == { i \in 1..Len(calls) : calls[i].op = op }

\* C11: when prepare_target has completed, the destination holds exactly
\* the bucket ids it held before, each with its original type and, right
\* after the completion, with no events; every create_bucket is immediately
\* preceded by the delete_bucket of the same bucket, every bucket held
\* before is deleted and created once, and every insert_event is issued
\* after all delete_bucket and create_bucket calls.
C11_FullReset ==
    /\ PrepareDone =>
         /\ \A id \in DstIds :
              /\ dst[id].exists = start_dst[id].exists
              /\ dst[id].type = start_dst[id].type
              /\ pc = "prepared" => dst[id].events = <<>>
              /\ Cardinality({ i \in CallsOf("delete_bucket") :
                                 calls[i].bucket = id })
                   = IF start_dst[id].exists THEN 1 ELSE 0
              /\ Cardinality({ i \in CallsOf("create_bucket") :
                                 calls[i].bucket = id })
                   = IF start_dst[id].exists THEN 1 ELSE 0
    /\ \A i \in CallsOf("create_bucket") :
         /\ i > 1
         /\ calls[i - 1] = [op |-> "delete_bucket", bucket |-> calls[i].bucket]
    /\ \A i \in CallsOf("insert_event") :
         /\ PrepareDone
         /\ \A j \in CallsOf("delete_bucket") \cup CallsOf("create_bucket") :
              j < i

C11_Witness ==
    /\ pc = "done"
    /\ \A id \in DstIds : start_dst[id].exists /\ start_dst[id].events # <<>>
    /\ CallsOf("insert_event") # {}
    /\ dst[OtherDstBucket].events = <<>>

\* what the lookup of a role returns at the second the next iteration
\* evaluates: <<>> for None, <<event>> otherwise
EvWindow == Found(data, "window",
                  Lookup(data, "window", first_ts + offset, TRUE))
EvWeb == Found(data, "web", Lookup(data, "web", first_ts + offset, FALSE))
EvAfk == Found(data, "afk", Lookup(data, "afk", first_ts + offset, TRUE))

\* an iteration of the sweep is taken: it hands one more candidate to
\* update_event
Iteration == pc = "sweep" /\ Len(cands') = Len(cands) + 1

LastCand == cands'[Len(cands')]

AudibleWhileAfk ==
    /\ EvAfk # <<>> /\ EvAfk[1].data.status = "afk"
    /\ EvWeb # <<>> /\ EvWeb[1].data.audible
    /\ EvWindow # <<>>

\* the iteration starts an interval for the candidate or extends the current
\* one, unless an insert of the interval it closes has failed
StartedOrExtended ==
    pc' # "failed" =>
      /\ cur_event' # <<>>
      /\ cur_event'[1].data = LastCand[1]
      /\ IF cur_event # <<>> /\ cur_event[1].data = LastCand[1]
         THEN /\ cur_event'[1].timestamp = cur_event[1].timestamp
              /\ cur_event'[1].duration
                   = first_ts + offset - cur_event[1].timestamp
              /\ dst' = dst
         ELSE cur_event'[1].timestamp = first_ts + offset

AudibleOverride ==
    (Iteration /\ AudibleWhileAfk) =>
      /\ LastCand # <<>>
      /\ LastCand[1].app # <<>>
      /\ EvWindow[1].data.app # <<"Google-chrome">>
           => LastCand[1].app = EvWindow[1].data.app
      /\ StartedOrExtended

\* C12: at every swept second where the afk lookup yields an event with
\* status "afk", the web lookup an audible event and the window lookup an
\* event, the candidate handed to update_event is not idle, and the current
\* interval is started or extended.
C12_AudibleOverride == [][AudibleOverride]_vars

\* the user is away with audible media at the i-th swept second, a window
\* event covers it and the candidate derived is not idle
C12_Witness ==
    /\ pc = "done"
    /\ \E i \in 2..Len(cands) :
         /\ cands[i] # <<>>
         /\ cands[i] = cands[i - 1]
         /\ Covered(data["window"].events, SecondAt(i))
         /\ \E k \in 1..Len(data["afk"].events) :
              /\ Reaches(data["afk"].events[k], SecondAt(i))
              /\ data["afk"].events[k].data.status = "afk"
         /\ \E k \in 1..Len(data["web"].events) :
              /\ Reaches(data["web"].events[k], SecondAt(i))
              /\ data["web"].events[k].data.audible

\* the insert_event calls of the run, in the order they were issued
InsertCalls == SelectSeq(calls, LAMBDA c : c.op = "insert_event")

\* the runs of one candidate that were closed with a positive duration
PositiveRuns ==
    { r \in (1..Len(cands)) \X (1..Len(cands)) :
        ClosedRun(r[1], r[2]) /\ r[2] > r[1] }

\* C13: between two calls of update_event, every interval closed with a
\* positive duration has been inserted exactly once into the window bucket,
\* with data {app, title}, and right after that into the afk bucket, with
\* status "not-afk" and the same timestamp and duration; the two buckets
\* have received the same number of inserts and nothing else was inserted.
C13_PairedEmission ==
    Swept =>
      /\ Len(WinEvents) = Len(AfkEvents)
      /\ Len(InsertCalls) = 2 * Len(WinEvents)
      /\ \A i \in 1..Len(InsertCalls) :
           InsertCalls[i].bucket
             = IF i % 2 = 1 THEN dst_window_bucket ELSE dst_afk_bucket
      /\ \A k \in 1..Len(WinEvents) :
           /\ DOMAIN WinEvents[k].data = {"app", "title"}
           /\ AfkEvents[k].timestamp = WinEvents[k].timestamp
           /\ AfkEvents[k].duration = WinEvents[k].duration
           /\ AfkEvents[k].data.status = "not-afk"
      /\ \A r \in PositiveRuns : Cardinality(StartedIn(r[1], r[2])) = 1
      /\ Len(WinEvents) = Cardinality(PositiveRuns)

C13_Witness ==
    /\ pc = "done"
    /\ Len(WinEvents) >= 2
    /\ Cardinality(PositiveRuns) >= 2
    /\ Len(InsertCalls) >= 4

\* the events of a destination bucket whose timestamp is the i-th swept
\* second
InsertedAt(events, i) ==
    { k \in 1..Len(events) : events[k].timestamp = SecondAt(i) }

\* C14: a candidate derived at exactly one swept second, with another
\* candidate or idle at the next second, causes no insert into either
\* destination bucket, and every event inserted by the sweep has a strictly
\* positive duration.
C14_ZeroDurationDrop ==
    /\ Swept =>
         \A i \in 1..Len(cands) :
           ClosedRun(i, i) =>
             /\ InsertedAt(WinEvents, i) = {}
             /\ InsertedAt(AfkEvents, i) = {}
    /\ PrepareDone =>
         /\ \A k \in 1..Len(WinEvents) : WinEvents[k].duration > 0
         /\ \A k \in 1..Len(AfkEvents) : AfkEvents[k].duration > 0

C14_Witness ==
    /\ pc = "done"
    /\ \E i \in 1..Len(cands) :
         /\ ClosedRun(i, i)
         /\ cands[i + 1] # <<>>
    /\ Len(WinEvents) >= 1

Chrome == <<"Google-chrome">>

\* the URL is "http" or "https", "://" and a host of at least one token
\* other than "/"; the host is the tokens up to the next "/"
UrlMatches(url) ==
    /\ Len(url) >= 5
    /\ url[1] \in {"http", "https"}
    /\ url[2] = ":" /\ url[3] = "/" /\ url[4] = "/"
    /\ url[5] # "/"

HostEnd(url) ==
    Min({ k \in 5..Len(url) : k = Len(url) \/ url[k + 1] = "/" })

\* an iteration that has looked up a window event of Google-chrome and
\* hands a candidate that is not idle to update_event
ChromeIteration ==
    /\ Iteration
    /\ EvWindow # <<>>
    /\ EvWindow[1].data.app = Chrome
    /\ LastCand # <<>>

ChromeStep ==
    ChromeIteration =>
      /\ StartedOrExtended
      /\ IF EvWeb = <<>>
         THEN LastCand[1] = EvWindow[1].data
         ELSE IF EvWeb[1].data.incognito
              THEN LastCand[1] = [app |-> Chrome, title |-> <<"PRIVATE">>]
              ELSE IF UrlMatches(EvWeb[1].data.url)
                   THEN LastCand[1]
                          = [app |-> SubSeq(EvWeb[1].data.url, 5,
                                            HostEnd(EvWeb[1].data.url)),
                             title |-> EvWeb[1].data.title]
                   ELSE LastCand[1].app = Chrome

\* with no web event the candidate is the app and title of the window event
ChromeAlone ==
    \A w \in WindowData :
      w.app = Chrome =>
        Candidate(<<[timestamp |-> 0, duration |-> 0, data |-> w]>>,
                  <<>>, <<>>) = <<w>>

\* C15: for a window event of app "Google-chrome": with a web event that is
\* not incognito and whose URL matches ^https?://([^/]+) the derived app is
\* the host of the URL and the title the title of the web event; with an
\* incognito web event the title is "PRIVATE" and the app stays
\* "Google-chrome"; with no web event, or a URL that does not match, the app
\* stays "Google-chrome"; the iteration goes on to update_event.
C15_ChromeNormalization == []ChromeAlone /\ [][ChromeStep]_vars

\* the sweep has derived a candidate from a URL that matches, one from an
\* incognito web event or one from a URL that does not match
C15_Witness ==
    /\ pc = "done"
    /\ \E i \in 1..Len(cands) :
         /\ cands[i] # <<>>
         /\ cands[i][1].app = <<"mail.example.com">>
    /\ \E k \in 1..Len(data["window"].events) :
         data["window"].events[k].data.app = Chrome
    /\ Len(WinEvents) >= 1

\* the sweep has derived a candidate from an incognito web event
C15_WitnessPrivate ==
    /\ pc = "done"
    /\ \E i \in 1..Len(cands) :
         cands[i] = <<[app |-> Chrome, title |-> <<"PRIVATE">>]>>

\* the sweep has derived a candidate from a URL that does not match
C15_WitnessNoHost ==
    /\ pc = "done"
    /\ \E i \in 1..Len(cands) :
         cands[i] = <<[app |-> Chrome, title |-> <<"t">>]>>

\* the end of the last event of a series that is not empty
EndOf(events) ==
    events[Len(events)].timestamp + events[Len(events)].duration

\* the end of the union time range of the loaded series
UnionEnd ==
    Max({ EndOf(data[r].events) : r \in { q \in Roles : data[q].events # <<>> } })

\* the seconds the sweep has evaluated
Evaluated == { SecondAt(i) : i \in 1..Len(cands) }

\* C16: when the sweep has ended, every whole second from the least first
\* timestamp of the three series up to, and without, the greatest end of a
\* last event has been evaluated, also when the series start at different
\* instants.
C16_SweepCoversUnion ==
    (pc = "done" /\ \A r \in Roles : data[r].events # <<>>) =>
      \A s \in FirstTs(data)..(UnionEnd - 1) : s \in Evaluated

\* C17: after every call of get_by_timestamp(ts) on a series that is not
\* empty, data_pos is a valid index and is the greatest index whose event
\* has a timestamp <= ts, or 0 when ts precedes every event (indices from 0).
C17_CursorInvariant ==
    (lk.asked /\ lk.events # <<>>) =>
      /\ lk.data_pos \in 0..(Len(lk.events) - 1)
      /\ lk.data_pos
           = IF AtOrBefore(lk.events, lk.timestamp) = {}
             THEN 0
             ELSE Max(AtOrBefore(lk.events, lk.timestamp)) - 1

\* cands[i..] is the run of one candidate, not idle, that lasts through the
\* last swept second
OpenRun(i) ==
    /\ i \in 1..Len(cands)
    /\ cands[i] # <<>>
    /\ \A k \in i..Len(cands) : cands[k] = cands[i]
    /\ i = 1 \/ cands[i - 1] # cands[i]

StartsFrom(events, i) ==
    { k \in 1..Len(events) : events[k].timestamp >= SecondAt(i) }

\* C18: when the sweep has ended, the interval that is still open has not
\* been inserted: an activity that stays unchanged from some second through
\* the last swept second has caused no insert into the window bucket or the
\* afk bucket.
C18_NoFinalFlush ==
    pc = "done" =>
      \A i \in 1..Len(cands) :
        OpenRun(i) =>
          /\ cur_event # <<>>
          /\ cur_event[1].timestamp = SecondAt(i)
          /\ cur_event[1].data = cands[i][1]
          /\ StartsFrom(WinEvents, i) = {}
          /\ StartsFrom(AfkEvents, i) = {}

C18_Witness ==
    /\ pc = "done"
    /\ \E i \in 2..(Len(cands) - 1) : OpenRun(i)
    /\ cur_event[1].duration >= 1
    /\ Len(WinEvents) >= 1

\* C19: once prepare_target has returned, with the three roles loaded and
\* no call to a store failing, the run does not abort: it is in the sweep or
\* has ended it, also when one of the series was loaded without events.
C19_NoInternalAbort ==
    (/\ PrepareDone
     /\ \A r \in Roles : r \in DOMAIN data
     /\ err # "DestinationWriteFailed")
    => /\ pc # "failed"
       /\ pc = "done" => Len(cands) = Seconds(data)

\* C20: after prepare_target the destination holds the window bucket and
\* the afk bucket of the destination host, the two buckets insert_event is
\* called for, whatever buckets it held before the run.
C20_InsertTargetsExist ==
    PrepareDone =>
      /\ dst[dst_window_bucket].exists
      /\ dst[dst_afk_bucket].exists

====
